---- MODULE Spec2Model ----
(***************************************************************************)
(* Model of two cores of the repository:                                   *)
(*   - core/src/location/manager/watcher/ios.rs : IosEventHandler, the     *)
(*     iOS watcher event coalescer (handle_event, tick and the passes);    *)
(*   - crates/crypto/src/header/schema/file_001.rs : FileHeader001, the    *)
(*     version 1 encrypted file header and its keyslot area codec.         *)
(* Times are milliseconds.  A handler call is one atomic step: the handler *)
(* is single-threaded and handle_event / tick never interleave.            *)
(***************************************************************************)
EXTENDS Integers, Sequences, FiniteSets, TLC

\* ------------------------------------------------------------------ bounds
\* handle_event calls in one behaviour of Spec
MaxEvents == 3
\* the clock of Spec stops advancing here
MaxTime == 500

\* --------------------------------------------------------- program constants
HUNDRED_MILLIS == 100
ONE_SECOND == 1000

\* ------------------------------------------------------------------- paths
\* A path is the sequence of its components, "/" being the root component:
\* "/d/a" is <<"/", "d", "a">>, the relative path "b" is <<"b">>, "" is <<>>.
EmptyPath == <<>>

Paths == { <<"/", "d", "a">>, <<"b">> }

Inodes == {1, 2}

\* Path::parent as an option (a set with at most one element): None for ""
\* and for a path that ends in the root, else the path without its last
\* component (Some("") for a one-component relative path).
parent(path) ==
    IF path = EmptyPath \/ path[Len(path)] = "/"
    THEN {}
    ELSE { SubSeq(path, 1, Len(path) - 1) }

\* ------------------------------------------------------------------- state
VARIABLES
    files_to_update,             \* HashMap<PathBuf, Instant>
    reincident_to_update_files,  \* HashMap<PathBuf, Instant>
    last_events_eviction_check,  \* Instant
    latest_created_dir,          \* Option<PathBuf>
    old_paths_map,               \* HashMap<INode, (Instant, PathBuf)>
    new_paths_map,               \* HashMap<INode, (Instant, PathBuf)>
    paths_map_buffer,            \* Vec<(INode, (Instant, PathBuf))>
    to_recalculate_size,         \* HashMap<PathBuf, Instant>
    path_and_instant_buffer,     \* Vec<(PathBuf, Instant)>
    rename_event_queue,          \* HashMap<PathBuf, Instant>
    now,                         \* the monotonic clock (Instant::now())
    calls,                       \* library bridge calls made by the last handler call
    lastOp,                      \* the last handler call: which it was, the match arm taken, its result
    nev,                         \* number of events HandleEvent has delivered
    update_file_count,           \* update_file calls so far, per path
    sc,                          \* the schedule of events and ticks a scenario follows
    header,                      \* a FileHeader001 owned by its caller
    wire,                        \* the bytes the last serialize call returned
    decoded,                     \* the result of decoding wire
    hop                          \* the last header operation and its result

handlerVars ==
    << files_to_update, reincident_to_update_files, last_events_eviction_check,
       latest_created_dir, old_paths_map, new_paths_map, paths_map_buffer,
       to_recalculate_size, path_and_instant_buffer, rename_event_queue >>

vars ==
    << files_to_update, reincident_to_update_files, last_events_eviction_check,
       latest_created_dir, old_paths_map, new_paths_map, paths_map_buffer,
       to_recalculate_size, path_and_instant_buffer, rename_event_queue,
       now, calls, lastOp, nev, update_file_count, sc,
       header, wire, decoded, hop >>

headerVars == << header, wire, decoded, hop >>

watcherVars ==
    << files_to_update, reincident_to_update_files, last_events_eviction_check,
       latest_created_dir, old_paths_map, new_paths_map, paths_map_buffer,
       to_recalculate_size, path_and_instant_buffer, rename_event_queue,
       now, calls, lastOp, nev, update_file_count, sc >>

\* ---------------------------------------------------------------- HashMap
EmptyMap == << >>

\* HashMap::insert
Insert(m, k, v) == [x \in DOMAIN m \cup {k} |-> IF x = k THEN v ELSE m[x]]

\* HashMap::remove
Remove(m, k) == [x \in DOMAIN m \ {k} |-> m[x]]

\* HashMap::entry(k).or_insert(v)
OrInsert(m, k, v) == IF k \in DOMAIN m THEN m ELSE Insert(m, k, v)

\* HashMap::extend(buffer.drain(..)): the pairs <<key, value>> of a Vec, in order
RECURSIVE Extend(_, _)
Extend(m, buffer) ==
    IF buffer = << >> THEN m
    ELSE Extend(Insert(m, Head(buffer)[1], Head(buffer)[2]), Tail(buffer))

\* The orders in which HashMap::drain may yield a set of keys.
Orders(S) ==
    { o \in [1..Cardinality(S) -> S] : \A i, j \in DOMAIN o : o[i] = o[j] => i = j }

\* `if let Some(parent) = path.parent() { if parent != Path::new("") {
\*      self.to_recalculate_size.insert(parent.to_path_buf(), Instant::now()) } }`
MarkParent(recalc, path) ==
    IF parent(path) # {} /\ parent(path) # {EmptyPath}
    THEN Insert(recalc, CHOOSE q \in parent(path) : TRUE, now)
    ELSE recalc

\* ------------------------------------------------------------ bridge calls
CreateDirCall(path) == [op |-> "create_dir", path |-> path]
CreateFileCall(path) == [op |-> "create_file", path |-> path]
UpdateFileCall(path) == [op |-> "update_file", path |-> path]
RemoveCall(path) == [op |-> "remove", path |-> path]
RenameCall(new, old) == [op |-> "rename", path |-> new, old |-> old]
InvalidateCall == [op |-> "invalidate_query", path |-> <<"search.paths">>]
RecalculateCall == [op |-> "recalculate_directories_size", path |-> EmptyPath]
DbUpdateNameCall(inode, name) == [op |-> "db_update_name", path |-> <<name>>, inode |-> inode]


\* ------------------------------------------------- the handler as a record
\* `self` of IosEventHandler: the fields the handlers read and write.
Self ==
    [ files_to_update |-> files_to_update,
      reincident_to_update_files |-> reincident_to_update_files,
      last_events_eviction_check |-> last_events_eviction_check,
      latest_created_dir |-> latest_created_dir,
      old_paths_map |-> old_paths_map,
      new_paths_map |-> new_paths_map,
      paths_map_buffer |-> paths_map_buffer,
      to_recalculate_size |-> to_recalculate_size,
      path_and_instant_buffer |-> path_and_instant_buffer,
      rename_event_queue |-> rename_event_queue ]

\* What a handler call leaves behind: the handler's fields, the bridge calls
\* it made in order, and "ok" (Ok(())), "err" (Err(e)) or "panic" (an unwrap
\* of None).
Out(self, made, result) == [self |-> self, calls |-> made, result |-> result]

\* ------------------------------------------------------------ event kinds
UpdateKinds ==
    { "Create(File)", "Modify(Data(Content))",
      "Modify(Metadata(WriteTime))", "Modify(Metadata(Extended))" }

\* "Remove(Any)" stands for every kind the match names in no arm.
EventKinds ==
    { "Create(Folder)", "Modify(Name(Any))", "Modify(Metadata(Any))", "Remove(Any)" }
    \cup UpdateKinds

\* The arms of `match kind` in handle_event, in source order, each with the
\* kinds its pattern accepts.  Arm 3 is the wildcard `_`, arm 6 the binding
\* `other_event_kind`.
ArmPatterns ==
    << {"Create(Folder)"},
       {"Modify(Name(Any))"},
       EventKinds,
       UpdateKinds,
       {"Modify(Metadata(Any))"},
       EventKinds >>

\* The same arms with the wildcard arm moved behind the named ones.
MatchArmWildcardLast(kind) ==
    IF kind \in ArmPatterns[1] THEN 1
    ELSE IF kind \in ArmPatterns[2] THEN 2
    ELSE IF kind \in ArmPatterns[4] THEN 4
    ELSE IF kind \in ArmPatterns[5] THEN 5
    ELSE 3

\* `match` takes the first arm whose pattern accepts the value.
MatchArm(kind) ==
    CHOOSE i \in DOMAIN ArmPatterns :
        /\ kind \in ArmPatterns[i]
        /\ \A j \in 1..(i - 1) : kind \notin ArmPatterns[j]

\* ------------------------------------------- what the world answers a call
\* meta:    fs::metadata(path): "ok" (inode `inode`), "notfound", "err"
\* db:      extract_location_path / IsolatedFilePathData::new /
\*          check_file_path_exists together: "absent", "present", "err"
\* dbinode: extract_inode_from_path: "ok" (inode `inode`), "nottracked", "err"
\* restat:  fs::metadata(new_path) of a matched new path: "ok", "err"
\* bridge:  the create_dir / rename / remove call of the event: "ok", "err"
\* find, find2: the two find_unique queries of a folder rename:
\*          "some", "none", "err"
\* pick:    the entry rename_event_queue.iter().nth(0) yields, as an option
DefaultEnv ==
    [ meta |-> "ok", inode |-> 1, db |-> "absent", dbinode |-> "ok",
      restat |-> "ok", bridge |-> "ok", find |-> "some", find2 |-> "some",
      pick |-> {} ]

OkErr == {"ok", "err"}

CreateFolderEnvs ==
    { [DefaultEnv EXCEPT !.meta = "err"] }
    \cup { [DefaultEnv EXCEPT !.bridge = b] : b \in OkErr }

RemoveEnvs == { [DefaultEnv EXCEPT !.bridge = b] : b \in OkErr }

SingleRenameEnvs(self) ==
    { [DefaultEnv EXCEPT !.meta = "err"] }
    \cup { [DefaultEnv EXCEPT !.db = d] : d \in {"present", "err"} }
    \cup UNION { { [DefaultEnv EXCEPT !.inode = i, !.bridge = b] :
                     b \in IF i \in DOMAIN self.old_paths_map THEN OkErr ELSE {"ok"} } :
                 i \in Inodes }
    \cup { [DefaultEnv EXCEPT !.meta = "notfound", !.dbinode = x] :
             x \in {"nottracked", "err"} }
    \cup UNION { { [DefaultEnv EXCEPT !.meta = "notfound", !.inode = i,
                                      !.restat = rb[1], !.bridge = rb[2]] :
                     rb \in IF i \in DOMAIN self.new_paths_map
                            THEN { <<"ok", "ok">>, <<"ok", "err">>, <<"err", "ok">> }
                            ELSE { <<"ok", "ok">> } } :
                 i \in Inodes }

FolderRenameEnvs(self) ==
    { [DefaultEnv EXCEPT !.dbinode = x] : x \in {"nottracked", "err"} }
    \cup { [DefaultEnv EXCEPT !.inode = i, !.find = f] :
             i \in Inodes, f \in {"none", "err"} }
    \cup { [DefaultEnv EXCEPT !.inode = i, !.find2 = f, !.pick = k] :
             i \in Inodes, f \in {"some", "none", "err"},
             k \in IF self.rename_event_queue = EmptyMap
                   THEN { {} }
                   ELSE { {q} : q \in DOMAIN self.rename_event_queue } }


\* ---------------------------------------------------------- event handlers
\* handle_single_rename_event recording an existing path without looking for
\* its old half.
handle_single_rename_event_no_lookup(self, path, env) ==
    IF env.meta = "ok" THEN
        IF env.db = "err" THEN Out(self, << >>, "err")
        ELSE IF env.db = "absent" THEN
            Out([self EXCEPT !.new_paths_map = Insert(@, env.inode, <<now, path>>)],
                << >>, "ok")
        ELSE Out(self, << >>, "ok")
    ELSE IF env.meta = "notfound" THEN
        IF env.dbinode = "nottracked" THEN Out(self, << >>, "ok")
        ELSE IF env.dbinode = "err" THEN Out(self, << >>, "err")
        ELSE IF env.inode \in DOMAIN self.new_paths_map THEN
            LET self1 == [self EXCEPT !.new_paths_map = Remove(@, env.inode)]
                new_path == self.new_paths_map[env.inode][2]
            IN  IF env.restat = "err" THEN Out(self1, << >>, "err")
                ELSE Out(self1, << RenameCall(new_path, path) >>, env.bridge)
        ELSE
            Out([self EXCEPT !.old_paths_map = Insert(@, env.inode, <<now, path>>)],
                << >>, "ok")
    ELSE Out(self, << >>, "err")

\* handle_single_rename_event passing the two paths of an old -> new match to
\* rename in the wrong order.
handle_single_rename_event_swapped(self, path, env) ==
    IF env.meta = "ok" THEN
        IF env.db = "err" THEN Out(self, << >>, "err")
        ELSE IF env.db = "absent" THEN
            IF env.inode \in DOMAIN self.old_paths_map THEN
                Out([self EXCEPT !.old_paths_map = Remove(@, env.inode)],
                    << RenameCall(path, self.old_paths_map[env.inode][2]) >>,
                    env.bridge)
            ELSE
                Out([self EXCEPT !.new_paths_map = Insert(@, env.inode, <<now, path>>)],
                    << >>, "ok")
        ELSE Out(self, << >>, "ok")
    ELSE IF env.meta = "notfound" THEN
        IF env.dbinode = "nottracked" THEN Out(self, << >>, "ok")
        ELSE IF env.dbinode = "err" THEN Out(self, << >>, "err")
        ELSE IF env.inode \in DOMAIN self.new_paths_map THEN
            LET self1 == [self EXCEPT !.new_paths_map = Remove(@, env.inode)]
                new_path == self.new_paths_map[env.inode][2]
            IN  IF env.restat = "err" THEN Out(self1, << >>, "err")
                ELSE Out(self1, << RenameCall(path, new_path) >>, env.bridge)
        ELSE
            Out([self EXCEPT !.old_paths_map = Insert(@, env.inode, <<now, path>>)],
                << >>, "ok")
    ELSE Out(self, << >>, "err")

\* handle_single_rename_event
handle_single_rename_event(self, path, env) ==
    IF env.meta = "ok" THEN
        IF env.db = "err" THEN Out(self, << >>, "err")
        ELSE IF env.db = "absent" THEN
            IF env.inode \in DOMAIN self.old_paths_map THEN
                \* old_paths_map.remove(&inode), then rename(...).await?
                Out([self EXCEPT !.old_paths_map = Remove(@, env.inode)],
                    << RenameCall(path, self.old_paths_map[env.inode][2]) >>,
                    env.bridge)
            ELSE
                Out([self EXCEPT !.new_paths_map = Insert(@, env.inode, <<now, path>>)],
                    << >>, "ok")
        ELSE Out(self, << >>, "ok")
    ELSE IF env.meta = "notfound" THEN
        IF env.dbinode = "nottracked" THEN Out(self, << >>, "ok")
        ELSE IF env.dbinode = "err" THEN Out(self, << >>, "err")
        ELSE IF env.inode \in DOMAIN self.new_paths_map THEN
            \* new_paths_map.remove(&inode), then fs::metadata(&new_path)?, then rename(...).await?
            LET self1 == [self EXCEPT !.new_paths_map = Remove(@, env.inode)]
                new_path == self.new_paths_map[env.inode][2]
            IN  IF env.restat = "err" THEN Out(self1, << >>, "err")
                ELSE Out(self1, << RenameCall(new_path, path) >>, env.bridge)
        ELSE
            Out([self EXCEPT !.old_paths_map = Insert(@, env.inode, <<now, path>>)],
                << >>, "ok")
    ELSE Out(self, << >>, "err")

\* Path::file_name as an option: None for "" and for a path ending in the root.
file_name(path) ==
    IF path = EmptyPath \/ path[Len(path)] = "/" THEN {} ELSE { path[Len(path)] }

\* handle_folder_rename_event
handle_folder_rename_event(self, path, env) ==
    IF env.dbinode = "nottracked" THEN Out(self, << >>, "ok")
    ELSE IF env.dbinode = "err" THEN Out(self, << >>, "err")
    ELSE IF env.find = "err" THEN Out(self, << >>, "err")
    ELSE IF env.find = "none" THEN Out(self, << >>, "panic")
    ELSE
        LET made ==
                IF env.pick = {} THEN << >>
                ELSE LET key == CHOOSE k \in env.pick : TRUE
                     IN  << DbUpdateNameCall(env.inode, CHOOSE n \in file_name(key) : TRUE) >>
        IN  IF env.pick # {} /\ file_name(CHOOSE k \in env.pick : TRUE) = {}
            THEN Out(self, << >>, "panic")
            ELSE IF env.find2 = "err" THEN Out(self, made, "err")
            ELSE IF env.find2 = "none" THEN Out(self, made, "panic")
            ELSE Out(self, made, "ok")

\* The arms of handle_event.
CreateFolderArm(self, path, env) ==
    LET self1 == [self EXCEPT !.rename_event_queue = Insert(@, path, now)]
    IN  IF env.meta # "ok" THEN Out(self1, << >>, "err")
        ELSE IF env.bridge = "err" THEN Out(self1, << CreateDirCall(path) >>, "err")
        ELSE Out([self1 EXCEPT !.latest_created_dir = {path}],
                 << CreateDirCall(path) >>, "ok")

ModifyNameArm(self, path, env) ==
    IF parent(path) # {} /\ parent(path) # {EmptyPath}
    THEN handle_folder_rename_event(self, path, env)
    ELSE Out(self, << >>, "ok")

UpdateArm(self, path) ==
    IF path \in DOMAIN self.files_to_update
    THEN Out([self EXCEPT
                !.files_to_update = Insert(@, path, now),
                !.reincident_to_update_files =
                    OrInsert(@, path, self.files_to_update[path])],
             << >>, "ok")
    ELSE Out([self EXCEPT !.files_to_update = Insert(@, path, now)], << >>, "ok")

DeleteArm(self, path, env) ==
    Out([self EXCEPT !.to_recalculate_size = MarkParent(@, path)],
        << RemoveCall(path) >>, env.bridge)

\* The answers the world can give to the calls of the arm taken.
EventEnvs(self, kind, path) ==
    LET arm == MatchArm(kind)
    IN  IF arm = 1 THEN CreateFolderEnvs
        ELSE IF arm = 2 THEN
            IF parent(path) # {} /\ parent(path) # {EmptyPath}
            THEN FolderRenameEnvs(self) ELSE {DefaultEnv}
        ELSE IF arm = 3 THEN SingleRenameEnvs(self)
        ELSE IF arm = 5 THEN RemoveEnvs
        ELSE {DefaultEnv}

\* handle_event on Event { kind, paths: [path, ..] }
handle_event(self, kind, path, env) ==
    LET arm == MatchArm(kind)
    IN  IF arm = 1 THEN CreateFolderArm(self, path, env)
        ELSE IF arm = 2 THEN ModifyNameArm(self, path, env)
        ELSE IF arm = 3 THEN handle_single_rename_event(self, path, env)
        ELSE IF arm = 4 THEN UpdateArm(self, path)
        ELSE IF arm = 5 THEN DeleteArm(self, path, env)
        ELSE Out(self, << >>, "ok")


\* ---------------------------------------------------------- eviction passes
\* One `for (path, created_at) in map.drain()` loop of
\* handle_to_update_eviction over the entries of `src` in the order `order`:
\* an entry younger than `limit` goes to the buffer; an older one marks its
\* parent, is removed from the other map and is passed to update_file, whose
\* error (`?`) ends the loop.  st: the buffer, to_recalculate_size, the other
\* map, the calls made, should_invalidate, and whether no call has failed.
RECURSIVE EvictUpdates_keep_other(_, _, _, _, _)
EvictUpdates_keep_other(order, src, limit, fail, st) ==
    IF order = << >> \/ ~st.ok THEN st
    ELSE
        LET path == Head(order)
            created_at == src[path]
        IN  IF now - created_at < limit
            THEN EvictUpdates_keep_other(Tail(order), src, limit, fail,
                                         [st EXCEPT !.buf = Append(@, <<path, created_at>>)])
            ELSE
                LET st1 == [st EXCEPT !.recalc = MarkParent(@, path),
                                      !.calls = Append(@, UpdateFileCall(path))]
                IN  IF path \in fail
                    THEN [st1 EXCEPT !.ok = FALSE]
                    ELSE EvictUpdates_keep_other(Tail(order), src, limit, fail,
                                                 [st1 EXCEPT !.inval = TRUE])

RECURSIVE EvictUpdates(_, _, _, _, _)
EvictUpdates(order, src, limit, fail, st) ==
    IF order = << >> \/ ~st.ok THEN st
    ELSE
        LET path == Head(order)
            created_at == src[path]
        IN  IF now - created_at < limit
            THEN EvictUpdates(Tail(order), src, limit, fail,
                              [st EXCEPT !.buf = Append(@, <<path, created_at>>)])
            ELSE
                LET st1 == [st EXCEPT !.recalc = MarkParent(@, path),
                                      !.other = Remove(@, path),
                                      !.calls = Append(@, UpdateFileCall(path))]
                IN  IF path \in fail
                    THEN [st1 EXCEPT !.ok = FALSE]
                    ELSE EvictUpdates(Tail(order), src, limit, fail,
                                      [st1 EXCEPT !.inval = TRUE])

\* The elements of a sequence that are in S, in order.
Restrict(order, S) == SelectSeq(order, LAMBDA k : k \in S)

\* handle_to_update_eviction.  env.ord1, env.ord2: drain orders of the two
\* maps; env.failU: the paths for which update_file fails.  A drain that is
\* dropped by `?` leaves its map empty.
handle_to_update_eviction(self, env) ==
    LET s1 == EvictUpdates(env.ord1, self.files_to_update, HUNDRED_MILLIS * 5, env.failU,
                  [ buf |-> << >>, recalc |-> self.to_recalculate_size,
                    other |-> self.reincident_to_update_files,
                    calls |-> << >>, inval |-> FALSE, ok |-> TRUE ])
    IN  IF ~s1.ok
        THEN Out([self EXCEPT !.files_to_update = EmptyMap,
                              !.reincident_to_update_files = s1.other,
                              !.to_recalculate_size = s1.recalc,
                              !.path_and_instant_buffer = s1.buf],
                 s1.calls, "err")
        ELSE
            LET s2 == EvictUpdates(Restrict(env.ord2, DOMAIN s1.other), s1.other,
                          ONE_SECOND * 10, env.failU,
                          [ buf |-> << >>, recalc |-> s1.recalc,
                            other |-> Extend(EmptyMap, s1.buf),
                            calls |-> s1.calls, inval |-> s1.inval, ok |-> TRUE ])
            IN  IF ~s2.ok
                THEN Out([self EXCEPT !.files_to_update = s2.other,
                                      !.reincident_to_update_files = EmptyMap,
                                      !.to_recalculate_size = s2.recalc,
                                      !.path_and_instant_buffer = s2.buf],
                         s2.calls, "err")
                ELSE Out([self EXCEPT !.files_to_update = s2.other,
                                      !.reincident_to_update_files = Extend(EmptyMap, s2.buf),
                                      !.to_recalculate_size = s2.recalc,
                                      !.path_and_instant_buffer = << >>],
                         IF s2.inval THEN Append(s2.calls, InvalidateCall) ELSE s2.calls,
                         "ok")

\* The drain loop of handle_rename_create_eviction.  env.stat[inode]:
\* fs::metadata of the entry's path ("file", "dir" or "err"); env.failN: the
\* inodes whose create_dir / create_file call fails.
RECURSIVE EvictCreates(_, _, _, _, _)
EvictCreates(order, src, ftu, env, st) ==
    IF order = << >> \/ ~st.ok THEN st
    ELSE
        LET inode == Head(order)
            instant == src[inode][1]
            path == src[inode][2]
            rest == Tail(order)
        IN  IF now - instant > HUNDRED_MILLIS THEN
                IF path \notin DOMAIN ftu THEN
                    IF env.stat[inode] = "err" THEN [st EXCEPT !.ok = FALSE]
                    ELSE
                        LET st1 ==
                                IF env.stat[inode] = "dir"
                                THEN [st EXCEPT !.calls = Append(@, CreateDirCall(path))]
                                ELSE [st EXCEPT !.recalc = MarkParent(@, path),
                                                !.calls = Append(@, CreateFileCall(path))]
                        IN  IF inode \in env.failN
                            THEN [st1 EXCEPT !.ok = FALSE]
                            ELSE EvictCreates(rest, src, ftu, env, [st1 EXCEPT !.inval = TRUE])
                ELSE EvictCreates(rest, src, ftu, env, st)
            ELSE EvictCreates(rest, src, ftu, env,
                              [st EXCEPT !.buf = Append(@, <<inode, <<instant, path>>>>)])

\* handle_rename_create_eviction.  env.ordN: the drain order.
handle_rename_create_eviction(self, env) ==
    LET s == EvictCreates(env.ordN, self.new_paths_map, self.files_to_update, env,
                 [ buf |-> << >>, recalc |-> self.to_recalculate_size,
                   calls |-> << >>, inval |-> FALSE, ok |-> TRUE ])
    IN  IF ~s.ok
        THEN Out([self EXCEPT !.new_paths_map = EmptyMap,
                              !.to_recalculate_size = s.recalc,
                              !.paths_map_buffer = s.buf],
                 s.calls, "err")
        ELSE Out([self EXCEPT !.new_paths_map = Extend(EmptyMap, s.buf),
                              !.to_recalculate_size = s.recalc,
                              !.paths_map_buffer = << >>],
                 IF s.inval THEN Append(s.calls, InvalidateCall) ELSE s.calls,
                 "ok")

\* The drain loop of handle_rename_remove_eviction.  env.failO: the inodes
\* whose remove call fails.
RECURSIVE EvictRemoves(_, _, _, _)
EvictRemoves(order, src, env, st) ==
    IF order = << >> \/ ~st.ok THEN st
    ELSE
        LET inode == Head(order)
            instant == src[inode][1]
            path == src[inode][2]
        IN  IF now - instant > HUNDRED_MILLIS THEN
                LET st1 == [st EXCEPT !.recalc = MarkParent(@, path),
                                      !.calls = Append(@, RemoveCall(path))]
                IN  IF inode \in env.failO
                    THEN [st1 EXCEPT !.ok = FALSE]
                    ELSE EvictRemoves(Tail(order), src, env, [st1 EXCEPT !.inval = TRUE])
            ELSE EvictRemoves(Tail(order), src, env,
                              [st EXCEPT !.buf = Append(@, <<inode, <<instant, path>>>>)])

\* handle_rename_remove_eviction.  env.ordO: the drain order.
handle_rename_remove_eviction(self, env) ==
    LET s == EvictRemoves(env.ordO, self.old_paths_map, env,
                 [ buf |-> << >>, recalc |-> self.to_recalculate_size,
                   calls |-> << >>, inval |-> FALSE, ok |-> TRUE ])
    IN  IF ~s.ok
        THEN Out([self EXCEPT !.old_paths_map = EmptyMap,
                              !.to_recalculate_size = s.recalc,
                              !.paths_map_buffer = s.buf],
                 s.calls, "err")
        ELSE Out([self EXCEPT !.old_paths_map = Extend(EmptyMap, s.buf),
                              !.to_recalculate_size = s.recalc,
                              !.paths_map_buffer = << >>],
                 IF s.inval THEN Append(s.calls, InvalidateCall) ELSE s.calls,
                 "ok")

\* recalculate_directories_size(&mut to_recalculate_size, &mut buffer, ..):
\* after the call the map is empty, whether it returns Ok or Err.
recalculate_directories_size(self, env) ==
    Out([self EXCEPT !.to_recalculate_size = EmptyMap],
        << RecalculateCall >>, env.size)

\* The sub-passes a working tick attempts, in order, each with its result.
PassLog(name, out) == << [pass |-> name, result |-> out.result] >>

\* tick giving up at the first sub-pass that returns an error.
tick_stop_on_error(self, env) ==
    IF now - self.last_events_eviction_check > HUNDRED_MILLIS THEN
        LET o1 == handle_to_update_eviction(self, env)
            o2 == handle_rename_create_eviction(o1.self, env)
            o3 == handle_rename_remove_eviction(o2.self, env)
        IN  IF o1.result = "err"
            THEN Out(o1.self, o1.calls, PassLog("update", o1))
            ELSE IF o2.result = "err"
            THEN Out(o2.self, o1.calls \o o2.calls,
                     PassLog("update", o1) \o PassLog("rename_create", o2))
            ELSE IF o3.result = "err"
            THEN Out(o3.self, o1.calls \o o2.calls \o o3.calls,
                     PassLog("update", o1) \o PassLog("rename_create", o2)
                     \o PassLog("rename_remove", o3))
            ELSE
                LET log3 == PassLog("update", o1) \o PassLog("rename_create", o2)
                            \o PassLog("rename_remove", o3)
                    made3 == o1.calls \o o2.calls \o o3.calls
                IN  IF o3.self.to_recalculate_size # EmptyMap
                    THEN LET o4 == recalculate_directories_size(o3.self, env)
                         IN  Out([o4.self EXCEPT !.last_events_eviction_check = now],
                                 made3 \o o4.calls, log3 \o PassLog("size", o4))
                    ELSE Out([o3.self EXCEPT !.last_events_eviction_check = now],
                             made3, log3)
    ELSE Out(self, << >>, << >>)

\* tick: the value is the handler's fields, the calls made and, as result,
\* the log of the sub-passes attempted (the empty log for a tick that does
\* nothing).
tick(self, env) ==
    IF now - self.last_events_eviction_check > HUNDRED_MILLIS THEN
        LET o1 == handle_to_update_eviction(self, env)
            o2 == handle_rename_create_eviction(o1.self, env)
            o3 == handle_rename_remove_eviction(o2.self, env)
            log3 == PassLog("update", o1) \o PassLog("rename_create", o2)
                    \o PassLog("rename_remove", o3)
            made3 == o1.calls \o o2.calls \o o3.calls
        IN  IF o3.self.to_recalculate_size # EmptyMap
            THEN LET o4 == recalculate_directories_size(o3.self, env)
                 IN  Out([o4.self EXCEPT !.last_events_eviction_check = now],
                         made3 \o o4.calls, log3 \o PassLog("size", o4))
            ELSE Out([o3.self EXCEPT !.last_events_eviction_check = now], made3, log3)
    ELSE Out(self, << >>, << >>)

\* The entries of an inode map that a pass run now would find expired.
Expired(m) == { i \in DOMAIN m : now - m[i][1] > HUNDRED_MILLIS }

\* The paths a handle_to_update_eviction run now can pass to update_file.
Due(self) ==
    { p \in DOMAIN self.files_to_update :
        now - self.files_to_update[p] >= HUNDRED_MILLIS * 5 }
    \cup { p \in DOMAIN self.reincident_to_update_files :
        now - self.reincident_to_update_files[p] >= ONE_SECOND * 10 }

\* One drain order of a set of keys.
SomeOrder(S) == CHOOSE o \in Orders(S) : TRUE

\* The drain orders that lead to different outcomes: the order shows only
\* when a call of the pass fails.
OrdersIf(failing, S) == IF failing THEN Orders(S) ELSE { SomeOrder(S) }

\* What the world can answer the calls of a tick: the drain orders of the
\* four maps (ord1, ord2, ordN, ordO), the paths whose update_file fails
\* (failU), the fs::metadata answer for each expired new path (stat), the inodes
\* whose create or remove call fails (failN, failO) and the result of
\* recalculate_directories_size (size).
TickEnvs(self) ==
    IF now - self.last_events_eviction_check > HUNDRED_MILLIS
    THEN UNION { UNION { UNION { UNION {
           [ ord1 : OrdersIf(failU # {}, DOMAIN self.files_to_update),
             ord2 : OrdersIf(failU # {}, DOMAIN self.reincident_to_update_files),
             failU : {failU},
             ordN : OrdersIf(failN # {} \/ \E i \in DOMAIN stat : stat[i] = "err",
                             DOMAIN self.new_paths_map),
             stat : {stat},
             failN : {failN},
             ordO : OrdersIf(failO # {}, DOMAIN self.old_paths_map),
             failO : {failO},
             size : IF self.to_recalculate_size # EmptyMap
                       \/ failU # {} \/ DOMAIN stat # {} \/ Expired(self.old_paths_map) # {}
                       \/ Due(self) # {}
                    THEN OkErr ELSE {"ok"} ] :
           failN \in SUBSET { i \in DOMAIN stat : stat[i] # "err" } } :
           stat \in [Expired(self.new_paths_map) -> {"file", "dir", "err"}] } :
           failO \in SUBSET Expired(self.old_paths_map) } :
           failU \in SUBSET Due(self) }
    ELSE { [ ord1 |-> << >>, ord2 |-> << >>, failU |-> {}, ordN |-> << >>,
             stat |-> << >>, failN |-> {}, ordO |-> << >>, failO |-> {},
             size |-> "ok" ] }

\* ------------------------------------------------------------------ actions
\* How many times x occurs in a sequence.
Count(seq, x) == Cardinality({ i \in DOMAIN seq : seq[i] = x })

\* The handler's fields take the values of the record `self`.
Store(self) ==
    /\ files_to_update' = self.files_to_update
    /\ reincident_to_update_files' = self.reincident_to_update_files
    /\ last_events_eviction_check' = self.last_events_eviction_check
    /\ latest_created_dir' = self.latest_created_dir
    /\ old_paths_map' = self.old_paths_map
    /\ new_paths_map' = self.new_paths_map
    /\ paths_map_buffer' = self.paths_map_buffer
    /\ to_recalculate_size' = self.to_recalculate_size
    /\ path_and_instant_buffer' = self.path_and_instant_buffer
    /\ rename_event_queue' = self.rename_event_queue

\* IosEventHandler::new
InitHandler ==
    /\ files_to_update = EmptyMap
    /\ reincident_to_update_files = EmptyMap
    /\ last_events_eviction_check = 0
    /\ latest_created_dir = {}
    /\ old_paths_map = EmptyMap
    /\ new_paths_map = EmptyMap
    /\ rename_event_queue = EmptyMap
    /\ paths_map_buffer = << >>
    /\ to_recalculate_size = EmptyMap
    /\ path_and_instant_buffer = << >>
    /\ now = 0
    /\ calls = << >>
    /\ lastOp = [type |-> "new"]
    /\ nev = 0
    /\ update_file_count = [p \in Paths |-> 0]

\* No header has been made.
NoHeader == [made |-> FALSE]
NoWire == << >>
NoResult == [done |-> FALSE]

InitNoHeader ==
    /\ header = NoHeader
    /\ wire = NoWire
    /\ decoded = NoResult
    /\ hop = [op |-> "none"]

\* Events and ticks come in any order and at any time.
Init ==
    /\ InitHandler
    /\ InitNoHeader
    /\ sc = [mode |-> "free"]

\* One handle_event call, with the world's answers env.
DoEvent(kind, path, env) ==
    \E out \in { handle_event(Self, kind, path, env) } :
        /\ Store(out.self)
        /\ calls' = out.calls
        /\ lastOp' = [type |-> "event", arm |-> MatchArm(kind), result |-> out.result]
        /\ UNCHANGED <<now, update_file_count>>

\* One tick call, with the world's answers env.
DoTick(env) ==
    \E out \in { tick(Self, env) } :
        /\ Store(out.self)
        /\ calls' = out.calls
        /\ lastOp' = [type |-> "tick", passes |-> out.result]
        /\ update_file_count' =
              [p \in Paths |-> update_file_count[p] + Count(out.calls, UpdateFileCall(p))]
        /\ UNCHANGED now

\* One kind for each arm that some kind takes: handle_event reads the kind
\* only to choose the arm, so kinds that take the same arm make the same step.
KindPerArm ==
    { CHOOSE k \in EventKinds : MatchArm(k) = a : a \in { MatchArm(k) : k \in EventKinds } }

\* The platform watcher delivers an event.
HandleEvent ==
    /\ nev < MaxEvents
    /\ nev' = nev + 1
    /\ \E kind \in KindPerArm, path \in Paths :
          \E env \in EventEnvs(Self, kind, path) : DoEvent(kind, path, env)
    /\ UNCHANGED <<sc, headerVars>>

\* The location manager calls tick.
Tick ==
    /\ \E env \in TickEnvs(Self) : DoTick(env)
    /\ UNCHANGED <<nev, sc, headerVars>>

\* Time passes between two handler calls.
Delays == {(HUNDRED_MILLIS * 5) \div 2}

Advance ==
    /\ \E d \in Delays : now + d <= MaxTime /\ now' = now + d
    /\ calls' = << >>
    /\ lastOp' = [type |-> "advance"]
    /\ UNCHANGED <<handlerVars, nev, update_file_count, sc, headerVars>>

Next == HandleEvent \/ Tick \/ Advance

Spec == Init /\ [][Next]_vars

\* ---------------------------------------------------------------- scenarios
\* handle_to_update_eviction on update queues that hold entries: the queues
\* at construction time 0 and the ages of their entries are drawn, an entry
\* of reincident_to_update_files being the oldest timestamp of a path that
\* files_to_update holds too.  At MaxEvictionTime a timestamp of 0 is older
\* than ten seconds, one of 600 ms ago older than 500 ms, one of 100 ms ago
\* younger.
MaxEvictionTime == 11000

Stamps == {0, MaxEvictionTime - 6 * HUNDRED_MILLIS, MaxEvictionTime - HUNDRED_MILLIS}

StampMaps == UNION { [S -> Stamps] : S \in SUBSET Paths }

InitUpdateEviction ==
    /\ files_to_update \in StampMaps
    /\ reincident_to_update_files \in StampMaps
    /\ \A p \in DOMAIN reincident_to_update_files :
          /\ p \in DOMAIN files_to_update
          /\ reincident_to_update_files[p] <= files_to_update[p]
    /\ last_events_eviction_check = 0
    /\ latest_created_dir = {}
    /\ old_paths_map = EmptyMap
    /\ new_paths_map = EmptyMap
    /\ rename_event_queue = EmptyMap
    /\ paths_map_buffer = << >>
    /\ to_recalculate_size = EmptyMap
    /\ path_and_instant_buffer = << >>
    /\ now = MaxEvictionTime
    /\ calls = << >>
    /\ lastOp = [type |-> "new"]
    /\ nev = 0
    /\ update_file_count = [p \in Paths |-> 0]
    /\ InitNoHeader
    /\ sc = [mode |-> "free"]

\* What the world can answer the calls of handle_to_update_eviction: the
\* drain orders of the two maps and the paths whose update_file fails.
UpdateEvictionEnvs(self) ==
    [ ord1 : Orders(DOMAIN self.files_to_update),
      ord2 : Orders(DOMAIN self.reincident_to_update_files),
      failU : SUBSET Due(self) ]

SpecUpdateEviction == InitUpdateEviction /\ [][Tick]_vars

\* A series of writes to one file, with tick invoked every 100 ms: every
\* event of the series comes less than 500 ms after the one before.  In a
\* burst the first event is Create(File), the others Modify(Data(Content)),
\* and the series stops at some point; a long write is Modify(Data(Content))
\* events that keep coming.  sc.first and sc.last are the times of the first
\* and the last event (-1: none yet), sc.ticked the time of the last tick
\* call, sc.stopped whether the series is over.
MaxBurstTime == 1500
MaxLongTime == 10400

ScPath == << "/", "d", "a" >>

InitBurst ==
    /\ InitHandler
    /\ InitNoHeader
    /\ sc = [mode |-> "burst", first |-> -1, last |-> -1, ticked |-> -1,
             stopped |-> FALSE, limit |-> MaxBurstTime]

InitLongWrite ==
    /\ InitHandler
    /\ InitNoHeader
    /\ sc = [mode |-> "long", first |-> -1, last |-> -1, ticked |-> -1,
             stopped |-> FALSE, limit |-> MaxLongTime]

ScKinds ==
    IF sc.mode = "burst" /\ sc.first = -1
    THEN {"Create(File)"} ELSE {"Modify(Data(Content))"}

\* The next event of the series arrives.
ScEvent ==
    /\ ~sc.stopped
    /\ sc.last = -1 \/ (sc.last < now /\ now - sc.last < HUNDRED_MILLIS * 5)
    /\ \E kind \in ScKinds :
          \E env \in EventEnvs(Self, kind, ScPath) : DoEvent(kind, ScPath, env)
    /\ sc' = [sc EXCEPT !.first = IF @ = -1 THEN now ELSE @, !.last = now]
    /\ UNCHANGED <<nev, headerVars>>

\* The tick of this 100 ms period.
ScTick ==
    /\ sc.ticked # now
    /\ \E env \in TickEnvs(Self) : DoTick(env)
    /\ sc' = [sc EXCEPT !.ticked = now]
    /\ UNCHANGED <<nev, headerVars>>

\* 100 ms pass, once the period's tick is done and while the next event of
\* the series can still come in time.
ScAdvance ==
    /\ sc.first # -1
    /\ sc.ticked = now
    /\ now + HUNDRED_MILLIS <= sc.limit
    /\ ~sc.stopped => now + HUNDRED_MILLIS - sc.last < HUNDRED_MILLIS * 5
    /\ now' = now + HUNDRED_MILLIS
    /\ calls' = << >>
    /\ lastOp' = [type |-> "advance"]
    /\ UNCHANGED <<handlerVars, nev, update_file_count, sc, headerVars>>

\* The burst is over: no further event for the path.
ScStop ==
    /\ sc.mode = "burst"
    /\ sc.first # -1
    /\ ~sc.stopped
    /\ sc' = [sc EXCEPT !.stopped = TRUE]
    /\ UNCHANGED <<handlerVars, now, calls, lastOp, nev, update_file_count, headerVars>>

NextBurst == ScEvent \/ ScTick \/ ScAdvance \/ ScStop

SpecBurst == InitBurst /\ [][NextBurst]_vars

NextLongWrite == ScEvent \/ ScTick \/ ScAdvance

SpecLongWrite == InitLongWrite /\ [][NextLongWrite]_vars


\* ============================================================== header v1
KEYSLOT_LIMIT == 2
OBJECT_LIMIT == 2

Ok(v) == [ok |-> TRUE, val |-> v]
Err(e) == [ok |-> FALSE, err |-> e]

\* ------------------------------------------------------------ crate::types
\* An enumeration is the sequence of its variants in declaration order:
\* the encoding of a variant starts with its index.
AlgorithmVariants == << "XChaCha20Poly1305", "Aes256Gcm" >>
NonceVariants == << "XChaCha20Poly1305", "Aes256Gcm" >>
HashingAlgorithmVariants == << "Argon2id", "BalloonBlake3" >>
ParamsVariants == << "Standard", "Hardened", "Paranoid" >>
HeaderObjectTypeVariants == << "PreviewMedia", "Metadata", "Bytes" >>

VariantIndex(variants, v) == (CHOOSE i \in DOMAIN variants : variants[i] = v) - 1

\* A fixed-size byte array (Aad, Salt, EncryptedKey) is one value of the
\* stream, a natural number like every other value of it; a freshly generated
\* array is one of RandomBytes.  The bytes of a Nonce are a sequence, because
\* the two variants of the enumeration carry arrays of different lengths.
RandomBytes == {0, 1}
NonceBytes == {0}
Keys == {1, 2}

\* enum Nonce { XChaCha20Poly1305([u8; 20]), Aes256Gcm([u8; 8]) }: the number
\* of bytes a nonce of the variant carries.
NonceLen(variant) == IF variant = "XChaCha20Poly1305" THEN 20 ELSE 8

\* Nonce::generate(algorithm): a nonce of the algorithm's variant.
Nonce_generate(algorithm, bytes) ==
    [variant |-> algorithm, bytes |-> [i \in 1..NonceLen(algorithm) |-> bytes]]

\* Nonce::generate_xchacha()
Nonce_generate_xchacha(bytes) == Nonce_generate("XChaCha20Poly1305", bytes)

\* Key::derive(key, salt, context): one derived key for each (key, salt).
Key_derive(key, salt) == key + 2 * salt

RECURSIVE Pack(_)
Pack(seq) == IF seq = << >> THEN 1 ELSE Head(seq) + 8 * Pack(Tail(seq))

\* Encryptor::encrypt_bytes: an authentication tag that binds the key, the
\* nonce, the algorithm and the associated data (<< >> when there is none),
\* followed by as many bytes as the plaintext has.
encrypt_bytes(key, nonce, algorithm, bytes, aad) ==
    << Pack(<< key, VariantIndex(NonceVariants, nonce.variant), nonce.bytes[1],
               VariantIndex(AlgorithmVariants, algorithm),
               IF aad = << >> THEN 0 ELSE aad[1] + 1 >>) >> \o bytes

\* Decryptor::decrypt_bytes: the plaintext, if the tag is the one that
\* encrypt_bytes makes for this key, nonce, algorithm and associated data.
decrypt_bytes(key, nonce, algorithm, bytes, aad) ==
    IF bytes # << >> /\ encrypt_bytes(key, nonce, algorithm, Tail(bytes), aad) = bytes
    THEN Ok(Tail(bytes))
    ELSE Err("Decrypt")

\* EncryptedKey::try_from(Vec<u8>): the tag and the wrapped key as one array.
EncryptedKey_try_from(bytes) == bytes[1] * 8 + bytes[2]

\* The bytes of an EncryptedKey, as decrypt_bytes takes them.
EncryptedKey_bytes(k) == << k \div 8, k % 8 >>

\* Key::try_from(Protected<Vec<u8>>): a key is one value.
Key_try_from(r) ==
    IF ~r.ok THEN r ELSE IF Len(r.val) = 1 THEN Ok(r.val[1]) ELSE Err("LengthMismatch")

\* HashingAlgorithm::hash(password, salt, None): a key for each algorithm,
\* password and salt, unless the hashing fails (ok = FALSE).
HashingAlgorithm_hash(hashing_algorithm, password, salt, ok) ==
    IF ok
    THEN Ok(1 + ((password + salt
                   + VariantIndex(HashingAlgorithmVariants, hashing_algorithm[1])) % 2))
    ELSE Err("Hash")

\* ------------------------------------------------------------ constructors
\* Keyslot001::disabled; r is the random content drawn for the slot.
Keyslot001_disabled(r) ==
    [ enabled |-> FALSE,
      content_salt |-> r.content_salt,
      hashing_algorithm |-> << "Argon2id", "Standard" >>,
      master_key |-> r.master_key,
      salt |-> r.salt,
      nonce |-> Nonce_generate_xchacha(r.nonce) ]

DisabledDraws ==
    [ content_salt : RandomBytes, master_key : RandomBytes,
      salt : RandomBytes, nonce : NonceBytes ]

\* KeyslotArea001::try_from(Vec<Keyslot001>)
KeyslotArea001_try_from(value) ==
    IF Len(value) > KEYSLOT_LIMIT THEN Err("TooManyKeyslots") ELSE Ok(value)

\* Keyslot001::new; r is what the primitives draw and whether they succeed.
Keyslot001_new(algorithm, hashing_algorithm, content_salt, hashed_key, master_key, r) ==
    IF ~r.ok
    THEN Err("Encrypt")
    ELSE LET nonce == Nonce_generate(algorithm, r.nonce)
             salt == r.salt
             encrypted_master_key ==
                 EncryptedKey_try_from(
                     encrypt_bytes(Key_derive(hashed_key, salt), nonce, algorithm,
                                   << master_key >>, << >>))
         IN  Ok([ enabled |-> TRUE,
                  hashing_algorithm |-> hashing_algorithm,
                  salt |-> salt,
                  content_salt |-> content_salt,
                  master_key |-> encrypted_master_key,
                  nonce |-> nonce ])

\* Keyslot001::decrypt
Keyslot001_decrypt(k, algorithm, key) ==
    Key_try_from(decrypt_bytes(Key_derive(key, k.salt), k.nonce, algorithm,
                               EncryptedKey_bytes(k.master_key), << >>))

\* FileHeader001::new
FileHeader001_new(algorithm, aad, bytes) ==
    [ made |-> TRUE,
      aad |-> aad,
      algorithm |-> algorithm,
      nonce |-> Nonce_generate(algorithm, bytes),
      keyslots |-> << >>,
      objects |-> << >> ]

\* FileHeaderObject001::new
FileHeaderObject001_new(object_type, algorithm, master_key, aad, data, r) ==
    IF ~r.ok
    THEN Err("Encrypt")
    ELSE LET nonce == Nonce_generate(algorithm, r.nonce)
         IN  Ok([ object_type |-> object_type,
                  nonce |-> nonce,
                  data |-> encrypt_bytes(master_key, nonce, algorithm, data, << aad >>) ])

\* add_keyslot without the check against KEYSLOT_LIMIT.
add_keyslot_no_limit(h, hashing_algorithm, content_salt, hashed_key, master_key, r) ==
    LET k == Keyslot001_new(h.algorithm, hashing_algorithm, content_salt,
                            hashed_key, master_key, r)
    IN  IF k.ok
        THEN [self |-> [h EXCEPT !.keyslots = Append(@, k.val)], result |-> Ok("unit")]
        ELSE [self |-> h, result |-> k]

\* FileHeaderObject001::decrypt with the associated data left out.
FileHeaderObject001_decrypt_no_aad(o, algorithm, aad, master_key) ==
    decrypt_bytes(master_key, o.nonce, algorithm, o.data, << >>)

\* FileHeaderObject001::decrypt
FileHeaderObject001_decrypt(o, algorithm, aad, master_key) ==
    decrypt_bytes(master_key, o.nonce, algorithm, o.data, << aad >>)

\* FileHeader001::decrypt_object; index counts from 0.
decrypt_object(h, index, master_key) ==
    IF index >= Len(h.objects) \/ h.objects = << >>
    THEN Err("Index")
    ELSE FileHeaderObject001_decrypt(h.objects[index + 1], h.algorithm, h.aad, master_key)

\* FileHeader001::add_keyslot: the header after the call and the call's result.
add_keyslot(h, hashing_algorithm, content_salt, hashed_key, master_key, r) ==
    IF Len(h.keyslots) + 1 > KEYSLOT_LIMIT
    THEN [self |-> h, result |-> Err("TooManyKeyslots")]
    ELSE LET k == Keyslot001_new(h.algorithm, hashing_algorithm, content_salt,
                                 hashed_key, master_key, r)
         IN  IF k.ok
             THEN [self |-> [h EXCEPT !.keyslots = Append(@, k.val)], result |-> Ok("unit")]
             ELSE [self |-> h, result |-> k]

\* FileHeader001::add_object
add_object(h, object_type, master_key, data, r) ==
    IF Len(h.objects) + 1 > OBJECT_LIMIT
    THEN [self |-> h, result |-> Err("TooManyObjects")]
    ELSE LET o == FileHeaderObject001_new(object_type, h.algorithm, master_key,
                                          h.aad, data, r)
         IN  IF o.ok
             THEN [self |-> [h EXCEPT !.objects = Append(@, o.val)], result |-> Ok("unit")]
             ELSE [self |-> h, result |-> o]

\* The n-th (key, keyslot) pair that decrypt_master_key tries, n from 0,
\* as << index of the key, index of the keyslot >>: the loop over the keys
\* is the outer one.
PairAt_slot_major(n, nkeys, nslots) == << (n % nkeys) + 1, (n \div nkeys) + 1 >>

PairAt(n, nkeys, nslots) == << (n \div nslots) + 1, (n % nslots) + 1 >>

\* The loops of decrypt_master_key from the n-th pair on: the result and the
\* pairs tried.
RECURSIVE TryPairs(_, _, _)
TryPairs(h, keys, n) ==
    IF n >= Len(keys) * Len(h.keyslots)
    THEN [result |-> Err("IncorrectPassword"), tried |-> << >>]
    ELSE LET pair == PairAt(n, Len(keys), Len(h.keyslots))
             key == Keyslot001_decrypt(h.keyslots[pair[2]], h.algorithm, keys[pair[1]])
         IN  IF key.ok
             THEN [result |-> key, tried |-> << pair >>]
             ELSE [result |-> TryPairs(h, keys, n + 1).result,
                   tried |-> << pair >> \o TryPairs(h, keys, n + 1).tried]

\* FileHeader001::decrypt_master_key
decrypt_master_key(h, keys) ==
    IF h.keyslots = << >>
    THEN [result |-> Err("NoKeyslots"), tried |-> << >>]
    ELSE TryPairs(h, keys, 0)

\* The loop of decrypt_master_key_with_password from keyslot i on: the result
\* and the keyslots on which decrypt was tried.  hash_ok[i] tells whether
\* the hashing for keyslot i succeeds.
RECURSIVE TrySlots(_, _, _, _)
TrySlots(h, password, hash_ok, i) ==
    IF i > Len(h.keyslots)
    THEN [result |-> Err("IncorrectPassword"), tried |-> << >>]
    ELSE LET v == h.keyslots[i]
             key == HashingAlgorithm_hash(v.hashing_algorithm, password,
                                          v.content_salt, hash_ok[i])
         IN  IF ~key.ok
             THEN [result |-> Err("PasswordHash"), tried |-> << >>]
             ELSE IF Keyslot001_decrypt(v, h.algorithm, key.val).ok
                  THEN [result |-> Keyslot001_decrypt(v, h.algorithm, key.val),
                        tried |-> << i >>]
                  ELSE [result |-> TrySlots(h, password, hash_ok, i + 1).result,
                        tried |-> << i >> \o TrySlots(h, password, hash_ok, i + 1).tried]

\* FileHeader001::decrypt_master_key_with_password
decrypt_master_key_with_password(h, password, hash_ok) ==
    IF h.keyslots = << >>
    THEN [result |-> Err("NoKeyslots"), tried |-> << >>]
    ELSE TrySlots(h, password, hash_ok, 1)

\* FileHeader001::count_objects, FileHeader001::count_keyslots
count_objects(h) == Len(h.objects)

count_keyslots(h) == Len(h.keyslots)

\* ------------------------------------------------------------------ encode
\* The byte stream is a sequence of naturals, written field after field in
\* declaration order with nothing between them (bincode's standard
\* configuration): a bool is 0 or 1, an enumeration its variant index and
\* then the variant's fields, a Vec its length and then its elements.
RECURSIVE Flatten(_)
Flatten(seqs) == IF seqs = << >> THEN << >> ELSE Head(seqs) \o Flatten(Tail(seqs))

EncodeBool(b) == << IF b THEN 1 ELSE 0 >>

EncodeNonce(nonce) == << VariantIndex(NonceVariants, nonce.variant) >> \o nonce.bytes

EncodeHashingAlgorithm(h) ==
    << VariantIndex(HashingAlgorithmVariants, h[1]), VariantIndex(ParamsVariants, h[2]) >>

\* derive(bincode::Encode) for Keyslot001
Keyslot001_encode(k) ==
    EncodeBool(k.enabled) \o EncodeHashingAlgorithm(k.hashing_algorithm)
        \o << k.salt, k.content_salt, k.master_key >> \o EncodeNonce(k.nonce)

\* impl bincode::Encode for KeyslotArea001; pads is the random content of the
\* disabled slots it may write.
KeyslotArea001_encode(keyslots, pads) ==
    IF Len(keyslots) > KEYSLOT_LIMIT
    THEN Err("TooManyKeyslots")
    ELSE Ok(Flatten([i \in 1..Len(keyslots) |-> Keyslot001_encode(keyslots[i])])
            \o Flatten([i \in 1..(KEYSLOT_LIMIT - Len(keyslots)) |->
                           Keyslot001_encode(Keyslot001_disabled(pads[i]))]))

\* derive(bincode::Encode) for FileHeaderObject001
FileHeaderObject001_encode(o) ==
    << VariantIndex(HeaderObjectTypeVariants, o.object_type) >> \o EncodeNonce(o.nonce)
        \o << Len(o.data) >> \o o.data

\* derive(bincode::Encode) for FileHeader001
FileHeader001_encode(h, pads) ==
    LET area == KeyslotArea001_encode(h.keyslots, pads)
    IN  IF ~area.ok
        THEN area
        ELSE Ok(<< h.aad, VariantIndex(AlgorithmVariants, h.algorithm) >>
                \o EncodeNonce(h.nonce)
                \o area.val
                \o << Len(h.objects) >>
                \o Flatten([i \in 1..Len(h.objects) |-> FileHeaderObject001_encode(h.objects[i])]))

\* FileHeader001::serialize
serialize(h, pads) ==
    LET bytes == FileHeader001_encode(h, pads)
    IN  IF bytes.ok THEN bytes ELSE Err("BincodeEncode")

\* ------------------------------------------------------------------ decode
\* A reader is a stream and a position in it; a read gives the value read
\* and the position after it, or fails at the position it had reached.
Got(v, pos) == [ok |-> TRUE, val |-> v, pos |-> pos]
Failed(pos) == [ok |-> FALSE, val |-> 0, pos |-> pos]

\* The next read, made only if the read r succeeded.
Then(r, F(_)) == IF r.ok THEN F(r) ELSE Failed(r.pos)

Read(w, pos) == IF pos <= Len(w) THEN Got(w[pos], pos + 1) ELSE Failed(pos)

DecodeBool(w, pos) ==
    Then(Read(w, pos), LAMBDA r :
        IF r.val \in {0, 1} THEN Got(r.val = 1, r.pos) ELSE Failed(r.pos))

DecodeVariant(variants, w, pos) ==
    Then(Read(w, pos), LAMBDA r :
        IF r.val < Len(variants) THEN Got(variants[r.val + 1], r.pos) ELSE Failed(r.pos))

\* [u8; n]: the n bytes, with no length before them.
ReadArray(w, pos, n) ==
    IF pos + n - 1 <= Len(w)
    THEN Got(SubSeq(w, pos, pos + n - 1), pos + n)
    ELSE Failed(Len(w) + 1)

DecodeNonce(w, pos) ==
    Then(DecodeVariant(NonceVariants, w, pos), LAMBDA v :
    Then(ReadArray(w, v.pos, NonceLen(v.val)), LAMBDA b :
        Got([variant |-> v.val, bytes |-> b.val], b.pos)))

DecodeHashingAlgorithm(w, pos) ==
    Then(DecodeVariant(HashingAlgorithmVariants, w, pos), LAMBDA a :
    Then(DecodeVariant(ParamsVariants, w, a.pos), LAMBDA p :
        Got(<< a.val, p.val >>, p.pos)))

\* derive(bincode::Decode) for Keyslot001
Keyslot001_decode(w, pos) ==
    Then(DecodeBool(w, pos), LAMBDA enabled :
    Then(DecodeHashingAlgorithm(w, enabled.pos), LAMBDA hashing_algorithm :
    Then(Read(w, hashing_algorithm.pos), LAMBDA salt :
    Then(Read(w, salt.pos), LAMBDA content_salt :
    Then(Read(w, content_salt.pos), LAMBDA master_key :
    Then(DecodeNonce(w, master_key.pos), LAMBDA nonce :
        Got([ enabled |-> enabled.val,
              hashing_algorithm |-> hashing_algorithm.val,
              salt |-> salt.val,
              content_salt |-> content_salt.val,
              master_key |-> master_key.val,
              nonce |-> nonce.val ], nonce.pos)))))))

\* What the keyslot area decoder does with the slot it has just tried to
\* read, then with the n - 1 slots after it: a slot that failed to decode
\* is dropped, and the next one is read from where the reader stopped.
RECURSIVE ReadSlots(_, _, _)
AfterSlot(w, r, n) ==
    [slots |-> (IF r.ok THEN << r.val >> ELSE << >>) \o ReadSlots(w, r.pos, n - 1).slots,
     pos |-> ReadSlots(w, r.pos, n - 1).pos]

ReadSlots(w, pos, n) ==
    IF n = 0
    THEN [slots |-> << >>, pos |-> pos]
    ELSE AfterSlot(w, Keyslot001_decode(w, pos), n)

\* KeyslotArea001::try_from on the slots kept, as a read.
AreaOf(keyslots, pos) ==
    IF KeyslotArea001_try_from(keyslots).ok THEN Got(keyslots, pos) ELSE Failed(pos)

KeepAll(read) == AreaOf(read.slots, read.pos)

KeepEnabled(read) == AreaOf(SelectSeq(read.slots, LAMBDA x : x.enabled), read.pos)

\* The decoder with the filter on `enabled` left out.
KeyslotArea001_decode_no_filter(w, pos) == KeepAll(ReadSlots(w, pos, KEYSLOT_LIMIT))

\* impl bincode::Decode for KeyslotArea001
KeyslotArea001_decode(w, pos) == KeepEnabled(ReadSlots(w, pos, KEYSLOT_LIMIT))

\* Vec<u8>: the length, then that many bytes.
DecodeBytes(w, pos) ==
    Then(Read(w, pos), LAMBDA n :
        IF n.pos + n.val - 1 <= Len(w)
        THEN Got(SubSeq(w, n.pos, n.pos + n.val - 1), n.pos + n.val)
        ELSE Failed(Len(w) + 1))

\* derive(bincode::Decode) for FileHeaderObject001
FileHeaderObject001_decode(w, pos) ==
    Then(DecodeVariant(HeaderObjectTypeVariants, w, pos), LAMBDA object_type :
    Then(DecodeNonce(w, object_type.pos), LAMBDA nonce :
    Then(DecodeBytes(w, nonce.pos), LAMBDA data :
        Got([object_type |-> object_type.val, nonce |-> nonce.val, data |-> data.val],
            data.pos))))

\* Vec<FileHeaderObject001> after its length: n more objects from pos.
RECURSIVE ReadObjects(_, _, _)
ReadObjects(w, pos, n) ==
    IF n = 0
    THEN Got(<< >>, pos)
    ELSE Then(FileHeaderObject001_decode(w, pos), LAMBDA r :
         Then(ReadObjects(w, r.pos, n - 1), LAMBDA rest :
             Got(<< r.val >> \o rest.val, rest.pos)))

\* derive(bincode::Decode) for FileHeader001, read from the start of the stream
DecodeHeader(w) ==
    Then(Read(w, 1), LAMBDA aad :
    Then(DecodeVariant(AlgorithmVariants, w, aad.pos), LAMBDA algorithm :
    Then(DecodeNonce(w, algorithm.pos), LAMBDA nonce :
    Then(KeyslotArea001_decode(w, nonce.pos), LAMBDA keyslots :
    Then(Read(w, keyslots.pos), LAMBDA count :
    Then(ReadObjects(w, count.pos, count.val), LAMBDA objects :
        Got([ made |-> TRUE,
              aad |-> aad.val,
              algorithm |-> algorithm.val,
              nonce |-> nonce.val,
              keyslots |-> keyslots.val,
              objects |-> objects.val ], objects.pos)))))))

\* bincode::decode_from_slice, the inverse of serialize
Finish(r) == IF r.ok THEN Ok(r.val) ELSE Err("BincodeDecode")

FileHeader001_decode(w) == Finish(DecodeHeader(w))

\* ---------------------------------------------------------- header actions
HashingAlgorithms == { << "Argon2id", "Standard" >>, << "BalloonBlake3", "Paranoid" >> }
ObjectTypes == { "PreviewMedia", "Bytes" }
ObjectData == { << >>, << 1 >> }

\* What the primitives draw for a new keyslot or object, and whether they
\* succeed (Nonce::generate and encrypt_bytes may fail).
KeyslotDraws == [ok : BOOLEAN, salt : RandomBytes, nonce : NonceBytes]
ObjectDraws == [ok : BOOLEAN, nonce : NonceBytes]

Tag(r) == IF r.ok THEN "ok" ELSE r.err

\* The master key of the file the header h belongs to, which its owner
\* passes to add_keyslot and add_object: files differ in it.
MasterKey(h) == 1 + h.aad

\* FileHeader001::new(algorithm)
HeaderNew ==
    /\ ~header.made
    /\ \E algorithm \in { AlgorithmVariants[i] : i \in DOMAIN AlgorithmVariants },
          aad \in RandomBytes, bytes \in NonceBytes :
          header' = FileHeader001_new(algorithm, aad, bytes)
    /\ hop' = [op |-> "new", result |-> "ok"]
    /\ wire' = NoWire
    /\ decoded' = NoResult
    /\ UNCHANGED watcherVars

\* header.add_keyslot(hashing_algorithm, content_salt, hashed_key, master_key)
HeaderAddKeyslot ==
    /\ header.made
    /\ \E hashing_algorithm \in HashingAlgorithms, hashed_key \in Keys, r \in KeyslotDraws :
          \E out \in { add_keyslot(header, hashing_algorithm, 0, hashed_key, MasterKey(header), r) } :
             /\ header' = out.self
             /\ hop' = [op |-> "add_keyslot", result |-> Tag(out.result)]
    /\ wire' = NoWire
    /\ decoded' = NoResult
    /\ UNCHANGED watcherVars

\* header.add_object(object_type, master_key, data)
HeaderAddObject ==
    /\ header.made
    /\ \E object_type \in ObjectTypes, data \in ObjectData, r \in ObjectDraws :
          \E out \in { add_object(header, object_type, MasterKey(header), data, r) } :
             /\ header' = out.self
             /\ hop' = [op |-> "add_object", result |-> Tag(out.result)]
    /\ wire' = NoWire
    /\ decoded' = NoResult
    /\ UNCHANGED watcherVars

\* header.serialize(): the caller keeps the bytes.
HeaderSerialize ==
    /\ header.made
    /\ \E pads \in [1..(KEYSLOT_LIMIT - Len(header.keyslots)) -> DisabledDraws] :
          \E out \in { serialize(header, pads) } :
             /\ wire' = IF out.ok THEN out.val ELSE NoWire
             /\ hop' = [op |-> "serialize", result |-> Tag(out)]
    /\ decoded' = NoResult
    /\ UNCHANGED <<header, watcherVars>>

\* The bytes are decoded as a FileHeader001.
HeaderDecode ==
    /\ wire # NoWire
    /\ \E out \in { FileHeader001_decode(wire) } :
          /\ decoded' = [done |-> TRUE, ok |-> out.ok,
                         val |-> IF out.ok THEN out.val ELSE NoHeader]
          /\ hop' = [op |-> "decode", result |-> Tag(out)]
    /\ UNCHANGED <<header, wire, watcherVars>>

NextHeader ==
    HeaderNew \/ HeaderAddKeyslot \/ HeaderAddObject \/ HeaderSerialize \/ HeaderDecode

SpecHeader == Init /\ [][NextHeader]_vars

\* --------------------------------------------------------- decrypt actions
\* The decrypt operations take the header by shared reference: they are
\* applied to every header that new, add_keyslot and add_object can build,
\* serialized and decoded once.
NewHeaders ==
    { FileHeader001_new(AlgorithmVariants[i], aad, bytes) :
        i \in DOMAIN AlgorithmVariants, aad \in RandomBytes, bytes \in NonceBytes }

AfterAddKeyslot(hs) ==
    { add_keyslot(h, hashing_algorithm, 0, hashed_key, MasterKey(h), r).self :
        h \in hs, hashing_algorithm \in HashingAlgorithms, hashed_key \in Keys,
        r \in KeyslotDraws }

AfterAddObject(hs) ==
    { add_object(h, object_type, MasterKey(h), data, r).self :
        h \in hs, object_type \in {"Bytes"}, data \in ObjectData, r \in ObjectDraws }

Headers == AfterAddObject(AfterAddObject(AfterAddKeyslot(AfterAddKeyslot(NewHeaders))))

SomePads(h) ==
    [i \in 1..(KEYSLOT_LIMIT - Len(h.keyslots)) |-> CHOOSE d \in DisabledDraws : TRUE]

InitDecrypt ==
    /\ InitHandler
    /\ sc = [mode |-> "free"]
    /\ header \in Headers
    /\ wire = serialize(header, SomePads(header)).val
    /\ decoded = [done |-> TRUE, ok |-> FileHeader001_decode(wire).ok,
                  val |-> IF FileHeader001_decode(wire).ok
                          THEN FileHeader001_decode(wire).val ELSE NoHeader]
    /\ hop = [op |-> "decode", result |-> Tag(FileHeader001_decode(wire))]

Passwords == {1, 2}
KeyLists == { << >> } \cup { << k >> : k \in Keys } \cup { << k, l >> : k \in Keys, l \in Keys }

\* header.decrypt_master_key(keys)
HeaderDecryptMasterKey ==
    /\ \E keys \in KeyLists :
          \E out \in { decrypt_master_key(header, keys) } :
             hop' = [op |-> "decrypt_master_key", keys |-> keys,
                     result |-> out.result, tried |-> out.tried]
    /\ UNCHANGED <<header, wire, decoded, watcherVars>>

\* header.decrypt_master_key_with_password(password)
HeaderDecryptMasterKeyWithPassword ==
    /\ \E password \in Passwords, hash_ok \in [1..Len(header.keyslots) -> BOOLEAN] :
          \E out \in { decrypt_master_key_with_password(header, password, hash_ok) } :
             hop' = [op |-> "decrypt_master_key_with_password", password |-> password,
                     hash_ok |-> hash_ok, result |-> out.result, tried |-> out.tried]
    /\ UNCHANGED <<header, wire, decoded, watcherVars>>

\* decrypt_object(index, master_key), on the header or on its decoded copy
HeaderDecryptObject ==
    /\ \E on \in {"header"} \cup (IF decoded.ok THEN {"decoded"} ELSE {}),
          index \in 0..OBJECT_LIMIT, master_key \in Keys :
          \E out \in { decrypt_object(IF on = "header" THEN header ELSE decoded.val,
                                      index, master_key) } :
             hop' = [op |-> "decrypt_object", on |-> on, index |-> index,
                     master_key |-> master_key, result |-> out]
    /\ UNCHANGED <<header, wire, decoded, watcherVars>>

NextDecrypt ==
    HeaderDecryptMasterKey \/ HeaderDecryptMasterKeyWithPassword \/ HeaderDecryptObject

SpecDecrypt == InitDecrypt /\ [][NextDecrypt]_vars


\* =================================================================== claims
\* A path has a parent that is not the empty path.
HasParent(path) == parent(path) # {} /\ parent(path) # {EmptyPath}

\* The step is a handle_event call for an event of this kind on this path,
\* the world answering env.
EventStep(kind, path, env) ==
    /\ nev < MaxEvents
    /\ nev' = nev + 1
    /\ lastOp'.arm = MatchArm(kind)
    /\ env \in EventEnvs(Self, kind, path)
    /\ DoEvent(kind, path, env)

\* The step is a tick call: only DoTick writes a lastOp of type "tick".
TickStep ==
    /\ nev' = nev
    /\ now' = now
    /\ lastOp'.type = "tick"

C2_InodeInOneMap ==
    DOMAIN new_paths_map \cap DOMAIN old_paths_map = {}

\* Both maps hold a half-event at the same time.
C2_Witness ==
    /\ new_paths_map # EmptyMap
    /\ old_paths_map # EmptyMap
    /\ DOMAIN new_paths_map \cap DOMAIN old_paths_map = {}

\* --------------------------------------------------------------------- C3
\* C3: rename pairing is order-independent.  An event on a path that exists
\* on disk with inode i and is not in the DB, handled while old_paths_map holds
\* i for the path old, calls rename(new = path, old = old) exactly once and
\* leaves i in neither map; an event on a path missing on disk whose DB inode
\* is i, handled while new_paths_map holds i for the path new (still on disk),
\* calls rename(new = new, old = path) exactly once and leaves i in neither
\* map.  The half-event that comes first makes no call and is recorded.
C3_NewHalf(path, i, b) ==
    LET out == handle_event(Self, "Remove(Any)", path,
                            [DefaultEnv EXCEPT !.inode = i, !.bridge = b])
    IN  IF i \in DOMAIN old_paths_map
        THEN /\ out.calls = << RenameCall(path, old_paths_map[i][2]) >>
             /\ i \notin DOMAIN out.self.new_paths_map \cup DOMAIN out.self.old_paths_map
        ELSE /\ out.calls = << >>
             /\ i \in DOMAIN out.self.new_paths_map
             /\ out.self.new_paths_map[i] = <<now, path>>

C3_OldHalf(path, i, b) ==
    LET out == handle_event(Self, "Remove(Any)", path,
                            [DefaultEnv EXCEPT !.meta = "notfound", !.inode = i, !.bridge = b])
    IN  IF i \in DOMAIN new_paths_map
        THEN /\ out.calls = << RenameCall(new_paths_map[i][2], path) >>
             /\ i \notin DOMAIN out.self.new_paths_map \cup DOMAIN out.self.old_paths_map
        ELSE /\ out.calls = << >>
             /\ i \in DOMAIN out.self.old_paths_map
             /\ out.self.old_paths_map[i] = <<now, path>>

\* C3: in every reachable state, whatever half-event handle_event is given
\* next and whether the rename call it may make succeeds (b), the half that
\* completes a pair calls rename(new, old) once and leaves the inode in
\* neither map, and the half that comes first is recorded without any call.
C3_RenamePairing ==
    \A path \in Paths, i \in Inodes, b \in OkErr :
        C3_NewHalf(path, i, b) /\ C3_OldHalf(path, i, b)

\* The second half-event has just been handled: one rename call, maps empty.
C3_Witness ==
    /\ lastOp.type = "event" /\ lastOp.arm = 3
    /\ \E new \in Paths : \E old \in Paths \ {new} : calls = << RenameCall(new, old) >>
    /\ new_paths_map = EmptyMap /\ old_paths_map = EmptyMap


\* --------------------------------------------------------------------- C6
\* C6: handling an event of kind Modify(Metadata(Any)) on path p calls
\* remove(location_id, p) during that handle_event call, records the
\* non-empty parent of p in to_recalculate_size, and does not touch
\* new_paths_map or old_paths_map.
C6_IosDelete ==
    [][ \A path \in Paths :
          \A env \in EventEnvs(Self, "Modify(Metadata(Any))", path) :
            EventStep("Modify(Metadata(Any))", path, env) =>
                /\ Count(calls', RemoveCall(path)) = 1
                /\ HasParent(path) => parent(path) \subseteq DOMAIN to_recalculate_size'
                /\ UNCHANGED <<new_paths_map, old_paths_map>> ]_vars

\* --------------------------------------------------------------------- C8
\* C8: whenever handle_event returns an error, files_to_update,
\* reincident_to_update_files, new_paths_map, old_paths_map,
\* to_recalculate_size, rename_event_queue and latest_created_dir have the
\* values they had before the call.
C8_FailedEventKeepsState ==
    [][ (nev' = nev + 1 /\ lastOp'.result = "err") =>
            UNCHANGED << files_to_update, reincident_to_update_files, new_paths_map,
                         old_paths_map, to_recalculate_size, rename_event_queue,
                         latest_created_dir >> ]_vars

\* --------------------------------------------------------------------- C9
\* to_recalculate_size is non-empty when tick tests it, after the three
\* eviction passes: it was non-empty before, or a pass marked a parent (which
\* it does right before an update_file, create_file or remove call).
C9_SizeDue ==
    \/ to_recalculate_size # EmptyMap
    \/ \E i \in DOMAIN calls' :
          /\ calls'[i].op \in {"update_file", "create_file", "remove"}
          /\ HasParent(calls'[i].path)

\* C9: a tick that performs work attempts the update eviction, the
\* rename-create eviction, the rename-remove eviction and (if
\* to_recalculate_size is non-empty) the size recomputation, in that order,
\* whatever the earlier ones returned, and sets last_events_eviction_check to
\* the current time; a tick within 100 ms of the last check does nothing.
C9_TickPasses ==
    [][ TickStep =>
          IF now - last_events_eviction_check > HUNDRED_MILLIS
          THEN /\ [i \in DOMAIN lastOp'.passes |-> lastOp'.passes[i].pass] =
                     IF C9_SizeDue
                     THEN << "update", "rename_create", "rename_remove", "size" >>
                     ELSE << "update", "rename_create", "rename_remove" >>
               /\ last_events_eviction_check' = now
               /\ Expired(old_paths_map) # {} =>
                     \E i \in DOMAIN calls' : calls'[i].op = "remove"
          ELSE /\ UNCHANGED handlerVars
               /\ calls' = << >> ]_vars

\* A tick whose rename-create eviction returned an error still ran the
\* rename-remove eviction, which called remove, and the size recomputation.
C9_Witness ==
    /\ lastOp.type = "tick"
    /\ Len(lastOp.passes) = 4
    /\ lastOp.passes[2] = [pass |-> "rename_create", result |-> "err"]
    /\ lastOp.passes[3].pass = "rename_remove"
    /\ \E i \in DOMAIN calls : calls[i].op = "remove"
    /\ last_events_eviction_check = now

\* --------------------------------------------------------------------- C7
\* C7: at a working tick the rename-create eviction removes each entry
\* (inode i, path p) of new_paths_map older than 100 ms whose path is not
\* pending in files_to_update and turns it into exactly one create_file(p)
\* call (create_dir(p) if p is a directory) followed by a search.paths
\* invalidation; entries not older than 100 ms stay in new_paths_map, and
\* old_paths_map is left unchanged by the pass.
C7_UnpairedNewHalf ==
    now - last_events_eviction_check > HUNDRED_MILLIS =>
        \A env \in TickEnvs(Self) :
            LET before == handle_to_update_eviction(Self, env).self
                out == handle_rename_create_eviction(before, env)
                m == before.new_paths_map
            IN  /\ out.self.old_paths_map = before.old_paths_map
                /\ \A i \in DOMAIN m :
                      LET path == m[i][2]
                          create == IF env.stat[i] = "dir"
                                    THEN CreateDirCall(path) ELSE CreateFileCall(path)
                      IN  IF now - m[i][1] > HUNDRED_MILLIS
                          THEN path \notin DOMAIN before.files_to_update =>
                                 /\ i \notin DOMAIN out.self.new_paths_map
                                 /\ Count(out.calls, create) =
                                      Cardinality({ j \in Expired(m) : m[j][2] = path })
                                 /\ \E j, k \in DOMAIN out.calls :
                                       /\ j < k
                                       /\ out.calls[j] = create
                                       /\ out.calls[k] = InvalidateCall
                          ELSE i \in DOMAIN out.self.new_paths_map
                               /\ out.self.new_paths_map[i] = m[i]


\* --------------------------------------------------------------------- C4
\* C4: after a burst of events for path p (Create(File), then
\* Modify(Data(Content)) events each less than 500 ms after the one before,
\* then nothing), with tick invoked every 100 ms, update_file(p) is called
\* exactly once in total, by the first working tick at which 500 ms have
\* passed since the last event (working ticks are 200 ms apart, so at most
\* 600 ms after it); the tick that calls it with success emits exactly one
\* search.paths invalidation and recomputes the size of the parent directory.
C4_BurstCoalescing ==
    /\ update_file_count[ScPath] <= 1
    /\ (/\ sc.stopped
        /\ sc.last - sc.first < ONE_SECOND * 10
        /\ sc.ticked = now
        /\ now - sc.last >= HUNDRED_MILLIS * 6)
       => update_file_count[ScPath] = 1
    /\ (/\ lastOp.type = "tick"
        /\ Count(calls, UpdateFileCall(ScPath)) > 0
        /\ \A i \in DOMAIN lastOp.passes : lastOp.passes[i].result = "ok")
       => /\ Count(calls, InvalidateCall) = 1
          /\ Count(calls, RecalculateCall) = 1

\* --------------------------------------------------------------------- C5
\* C5: for a path p that keeps receiving Modify(Data(Content)) events less
\* than 500 ms apart, with tick invoked every 100 ms, update_file(p) is not
\* called before 10 s have passed since the first event, and it has been
\* called once the tick 10.2 s after the first event is done.
C5_BoundedLatency ==
    /\ update_file_count[ScPath] > 0 => now - sc.first >= ONE_SECOND * 10
    /\ (/\ sc.first # -1
        /\ sc.ticked = now
        /\ now - sc.first >= ONE_SECOND * 10 + HUNDRED_MILLIS * 2)
       => update_file_count[ScPath] >= 1

\* -------------------------------------------------------------------- C10
\* C10: for a header h with at most KEYSLOT_LIMIT keyslots, all enabled, and
\* at most OBJECT_LIMIT objects, decoding the bytes serialize(h) returned
\* succeeds and gives a header with the same aad, algorithm and nonce, the
\* same keyslots in the same order without the padding slots (the same
\* count_keyslots), and the same objects in the same order.
C10_HeaderRoundTrip ==
    decoded.done =>
        /\ Len(header.keyslots) <= KEYSLOT_LIMIT
        /\ \A i \in DOMAIN header.keyslots : header.keyslots[i].enabled
        /\ Len(header.objects) <= OBJECT_LIMIT
        /\ decoded.ok
        /\ decoded.val.aad = header.aad
        /\ decoded.val.algorithm = header.algorithm
        /\ decoded.val.nonce = header.nonce
        /\ decoded.val.keyslots = header.keyslots
        /\ Len(decoded.val.keyslots) = Len(header.keyslots)
        /\ decoded.val.objects = header.objects

\* A header with one real keyslot, one padding slot and two objects has been
\* serialized and decoded.
C10_Witness ==
    /\ decoded.done
    /\ decoded.ok
    /\ Len(header.keyslots) = 1
    /\ Len(header.objects) = 2
    /\ header.objects[1] # header.objects[2]


\* C11: the keyslot area of a serialized header is KEYSLOT_LIMIT slots, the
\* real keyslots first and in order, then disabled ones, and it takes the
\* same number of bytes whatever the algorithm of the header and however
\* many real keyslots there are: as many as an area of padding slots only.
KeyslotAreaStart == 3 + Len(EncodeNonce(header.nonce))

PaddingOnlyAreaLen ==
    KEYSLOT_LIMIT
        * Len(Keyslot001_encode(Keyslot001_disabled(CHOOSE d \in DisabledDraws : TRUE)))

C12_AddKeyslot(out, r) ==
    /\ count_keyslots(header) >= KEYSLOT_LIMIT => out.result = Err("TooManyKeyslots")
    /\ (count_keyslots(header) < KEYSLOT_LIMIT /\ r.ok) => out.result.ok
    /\ ~out.result.ok => out.self = header
    /\ out.result.ok =>
          /\ count_keyslots(out.self) = count_keyslots(header) + 1
          /\ [out.self EXCEPT !.keyslots = header.keyslots] = header

\* What C12 says of one add_object call on the header.
C12_AddObject(out, r) ==
    /\ count_objects(header) >= OBJECT_LIMIT => out.result = Err("TooManyObjects")
    /\ (count_objects(header) < OBJECT_LIMIT /\ r.ok) => out.result.ok
    /\ ~out.result.ok => out.self = header
    /\ out.result.ok =>
          /\ count_objects(out.self) = count_objects(header) + 1
          /\ [out.self EXCEPT !.objects = header.objects] = header

\* C12: a header never has more than KEYSLOT_LIMIT keyslots or OBJECT_LIMIT
\* objects.  An add call on a header that is below the limit succeeds unless
\* the encryption fails, and then the header is one keyslot (object) longer;
\* on a header at the limit it fails with TooManyKeyslots (TooManyObjects);
\* every failing add call leaves keyslots, objects, aad, algorithm and nonce
\* as they were.
C12_CapacityBound ==
    header.made =>
        /\ count_keyslots(header) <= KEYSLOT_LIMIT
        /\ count_objects(header) <= OBJECT_LIMIT
        /\ \A hashing_algorithm \in HashingAlgorithms, hashed_key \in Keys, r \in KeyslotDraws :
              C12_AddKeyslot(add_keyslot(header, hashing_algorithm, 0, hashed_key, 1, r), r)
        /\ \A object_type \in ObjectTypes, data \in ObjectData, r \in ObjectDraws :
              C12_AddObject(add_object(header, object_type, 1, data, r), r)

\* A third add_keyslot has just failed on a header with two keyslots and two
\* objects.
C12_Witness ==
    /\ header.made
    /\ hop = [op |-> "add_keyslot", result |-> "TooManyKeyslots"]
    /\ count_keyslots(header) = KEYSLOT_LIMIT
    /\ count_objects(header) = OBJECT_LIMIT


\* The key that the password of the call hashes to for keyslot i.
HashedKey(i) ==
    HashingAlgorithm_hash(header.keyslots[i].hashing_algorithm, hop.password,
                          header.keyslots[i].content_salt, TRUE).val

\* Keyslot i of the header is one that add_keyslot makes for hashed_key.
CreatedWith(i, hashed_key) ==
    \E r \in KeyslotDraws :
        /\ r.ok
        /\ Keyslot001_new(header.algorithm, header.keyslots[i].hashing_algorithm,
                          header.keyslots[i].content_salt, hashed_key,
                          MasterKey(header), r) = Ok(header.keyslots[i])

\* C13: in decrypt_master_key_with_password a hashing failure on one keyslot
\* is not fatal: when the hashing fails for an earlier keyslot and a later
\* keyslot can be decrypted with the password, the call returns the master
\* key.
C13_HashFailureNotFatal ==
    hop.op = "decrypt_master_key_with_password" =>
        \A i \in 1..count_keyslots(header) :
            ( /\ \E j \in 1..(i - 1) : ~hop.hash_ok[j]
              /\ hop.hash_ok[i]
              /\ Keyslot001_decrypt(header.keyslots[i], header.algorithm, HashedKey(i)).ok )
            => hop.result = Ok(MasterKey(header))

\* C14: on a header with a keyslot, decrypt_master_key_with_password(p)
\* returns the master key wrapped by add_keyslot if and only if p, hashed
\* with the hashing algorithm and content salt of some keyslot, is the hashed
\* key that keyslot was created with; otherwise it returns IncorrectPassword
\* after trying every keyslot; on a header without keyslots it returns
\* NoKeyslots.
C14_PasswordDecrypt ==
    hop.op = "decrypt_master_key_with_password" =>
        IF header.keyslots = << >>
        THEN hop.result = Err("NoKeyslots")
        ELSE IF \E i \in 1..count_keyslots(header) : CreatedWith(i, HashedKey(i))
             THEN hop.result = Ok(MasterKey(header))
             ELSE /\ hop.result = Err("IncorrectPassword")
                  /\ hop.tried = [i \in 1..count_keyslots(header) |-> i]

\* Every (key, keyslot) pair of the call, the first key with every keyslot
\* in slot order, then the second key.
KeyMajor ==
    [n \in 1..(Len(hop.keys) * count_keyslots(header)) |->
        << ((n - 1) \div count_keyslots(header)) + 1,
           ((n - 1) % count_keyslots(header)) + 1 >>]

Opens(pair) ==
    Keyslot001_decrypt(header.keyslots[pair[2]], header.algorithm, hop.keys[pair[1]])

\* C15: decrypt_master_key(keys) tries the (key, keyslot) pairs in key-major
\* order and returns the result of the first pair whose decrypt succeeds,
\* without trying a later pair; it returns IncorrectPassword only after every
\* pair was tried and failed, and NoKeyslots, with nothing tried, when the
\* header has no keyslots.
C15_KeyMajorOrder ==
    hop.op = "decrypt_master_key" =>
        IF header.keyslots = << >>
        THEN hop.result = Err("NoKeyslots") /\ hop.tried = << >>
        ELSE /\ Len(hop.tried) <= Len(KeyMajor)
             /\ hop.tried = SubSeq(KeyMajor, 1, Len(hop.tried))
             /\ \A n \in 1..(Len(hop.tried) - 1) : ~Opens(hop.tried[n]).ok
             /\ IF hop.result.ok
                THEN /\ hop.tried # << >>
                     /\ hop.result = Opens(hop.tried[Len(hop.tried)])
                ELSE /\ hop.result = Err("IncorrectPassword")
                     /\ hop.tried = KeyMajor
                     /\ \A n \in 1..Len(KeyMajor) : ~Opens(KeyMajor[n]).ok

\* The first key opened no keyslot and the second one opened the first
\* keyslot of two: three pairs were tried, the fourth was not.
C15_Witness ==
    /\ hop.op = "decrypt_master_key"
    /\ count_keyslots(header) = 2
    /\ Len(hop.keys) = 2
    /\ hop.tried = << << 1, 1 >>, << 1, 2 >>, << 2, 1 >> >>
    /\ hop.result = Ok(MasterKey(header))

\* C20: decrypt_object(index, master_key) fails with Index exactly when index
\* is not below count_objects; otherwise, for an object that add_object made
\* from data with that master key on the header (the call being made on the
\* header or on its copy after serialize and decode), it returns data.
C20_DecryptObject ==
    hop.op = "decrypt_object" =>
        LET h == IF hop.on = "header" THEN header ELSE decoded.val
        IN  /\ hop.result = Err("Index") <=> hop.index >= count_objects(h)
            /\ hop.index < count_objects(header) =>
                  \A object_type \in ObjectTypes, data \in ObjectData, r \in ObjectDraws :
                      ( /\ r.ok
                        /\ FileHeaderObject001_new(object_type, header.algorithm,
                                                   hop.master_key, header.aad, data, r)
                              = Ok(header.objects[hop.index + 1]) )
                      => hop.result = Ok(data)

\* The second object of the decoded copy was decrypted to the data it was
\* made from.
C20_Witness ==
    /\ hop.op = "decrypt_object"
    /\ hop.on = "decoded"
    /\ hop.index = 1
    /\ hop.master_key = MasterKey(header)
    /\ hop.result = Ok(<< 1 >>)


\* C16: an update event (Create(File), Modify(Data(Content)),
\* Modify(Metadata(WriteTime)), Modify(Metadata(Extended))) on path p makes
\* no bridge call and sets files_to_update[p] to now; the timestamp that
\* files_to_update had for p is copied to reincident_to_update_files only
\* when that map has no entry for p.
C16_UpdateEvents ==
    \A kind \in UpdateKinds, path \in Paths :
        \A env \in EventEnvs(Self, kind, path) :
            LET out == handle_event(Self, kind, path, env)
            IN  /\ out.calls = << >>
                /\ out.self.files_to_update = Insert(files_to_update, path, now)
                /\ out.self.reincident_to_update_files =
                      IF path \in DOMAIN files_to_update
                         /\ path \notin DOMAIN reincident_to_update_files
                      THEN Insert(reincident_to_update_files, path, files_to_update[path])
                      ELSE reincident_to_update_files


\* C17: each eviction from the update queues makes exactly one update_file
\* call: in one run of handle_to_update_eviction no path is passed to
\* update_file by both passes (a path that is due gets one call when the run
\* succeeds, a path that is not due gets none), and a path passed to
\* update_file is afterwards neither in files_to_update nor in
\* reincident_to_update_files.
C17_OneUpdatePerEviction ==
    \A env \in UpdateEvictionEnvs(Self) :
        LET out == handle_to_update_eviction(Self, env)
        IN  \A p \in Paths :
                /\ Count(out.calls, UpdateFileCall(p)) <= 1
                /\ Count(out.calls, UpdateFileCall(p)) = 1 =>
                      /\ p \notin DOMAIN out.self.files_to_update
                      /\ p \notin DOMAIN out.self.reincident_to_update_files
                /\ (out.result = "ok" /\ p \in Due(Self)) =>
                      Count(out.calls, UpdateFileCall(p)) = 1
                /\ p \notin Due(Self) => Count(out.calls, UpdateFileCall(p)) = 0

\* A tick has evicted both paths, each with one update_file call, and has
\* left them in neither queue.
C17_Witness ==
    /\ lastOp.type = "tick"
    /\ \A p \in Paths : Count(calls, UpdateFileCall(p)) = 1
    /\ files_to_update = EmptyMap
    /\ reincident_to_update_files = EmptyMap


\* C18: at a working tick the rename-remove eviction turns each entry
\* (inode i, path p) of old_paths_map older than 100 ms into a removal: the
\* entry leaves old_paths_map, the non-empty parent of p is recorded in
\* to_recalculate_size, remove(p) is called exactly once and a search.paths
\* invalidation follows; entries not older than 100 ms stay in old_paths_map
\* with their timestamp.
C18_UnpairedOldHalf ==
    now - last_events_eviction_check > HUNDRED_MILLIS =>
        \A env \in TickEnvs(Self) :
            LET before == handle_rename_create_eviction(
                              handle_to_update_eviction(Self, env).self, env).self
                out == handle_rename_remove_eviction(before, env)
                m == before.old_paths_map
            IN  \A i \in DOMAIN m :
                    LET path == m[i][2]
                    IN  IF now - m[i][1] > HUNDRED_MILLIS
                        THEN /\ i \notin DOMAIN out.self.old_paths_map
                             /\ HasParent(path) =>
                                   parent(path) \subseteq DOMAIN out.self.to_recalculate_size
                             /\ Count(out.calls, RemoveCall(path)) =
                                   Cardinality({ j \in Expired(m) : m[j][2] = path })
                             /\ \E j, k \in DOMAIN out.calls :
                                   /\ j < k
                                   /\ out.calls[j] = RemoveCall(path)
                                   /\ out.calls[k] = InvalidateCall
                        ELSE /\ i \in DOMAIN out.self.old_paths_map
                             /\ out.self.old_paths_map[i] = m[i]


\* C19: a folder rename (Modify(Name(Any)) on a tracked path with a parent)
\* that finds entries in rename_event_queue removes from the queue the entry
\* with the oldest timestamp and sets the name of the database record to the
\* file name of that entry's path, so that a queued folder creation is used
\* by at most one folder rename.
C19_FolderRenamePopsOldest ==
    \A path \in { p \in Paths : HasParent(p) } :
        \A env \in EventEnvs(Self, "Modify(Name(Any))", path) :
            (env.dbinode = "ok" /\ env.find = "some" /\ rename_event_queue # EmptyMap) =>
                LET out == handle_event(Self, "Modify(Name(Any))", path, env)
                IN  \E oldest \in DOMAIN rename_event_queue :
                        /\ \A q \in DOMAIN rename_event_queue :
                              rename_event_queue[oldest] <= rename_event_queue[q]
                        /\ out.self.rename_event_queue = Remove(rename_event_queue, oldest)
                        /\ \A name \in file_name(oldest) :
                              Count(out.calls, DbUpdateNameCall(env.inode, name)) = 1


\* C21: one tick emits at most one search.paths invalidation, however many
\* paths it updates, creates or removes, and it emits one whenever it has
\* made an update_file call.
C21_OneInvalidationPerTick ==
    lastOp.type = "tick" =>
        /\ Count(calls, InvalidateCall) <= 1
        /\ (\E p \in Paths : Count(calls, UpdateFileCall(p)) >= 1) =>
              Count(calls, InvalidateCall) = 1


\* The entry of key k that the map `before` held is in the map `after`, with
\* the same timestamp.
Kept(before, after, k) == k \in DOMAIN after /\ after[k] = before[k]

\* C22: no pending entry is lost by an eviction pass of a tick: an entry that
\* was in files_to_update, reincident_to_update_files, new_paths_map or
\* old_paths_map before the pass is in the map after it with the same
\* timestamp, unless the pass acted on it: it was due and the pass called
\* update_file, create_file or create_dir, or remove for its path, or skipped
\* it because its path is pending in files_to_update.  This holds also when
\* a call of the pass fails for another entry.
C22_NoEntryLost ==
    now - last_events_eviction_check > HUNDRED_MILLIS =>
        \A env \in TickEnvs(Self) :
            LET o1 == handle_to_update_eviction(Self, env)
                o2 == handle_rename_create_eviction(o1.self, env)
                o3 == handle_rename_remove_eviction(o2.self, env)
            IN  /\ \A p \in DOMAIN files_to_update :
                      \/ Kept(files_to_update, o1.self.files_to_update, p)
                      \/ Count(o1.calls, UpdateFileCall(p)) >= 1
                /\ \A p \in DOMAIN reincident_to_update_files :
                      \/ Kept(reincident_to_update_files,
                              o1.self.reincident_to_update_files, p)
                      \/ Count(o1.calls, UpdateFileCall(p)) >= 1
                /\ \A i \in DOMAIN o1.self.new_paths_map :
                      \/ Kept(o1.self.new_paths_map, o2.self.new_paths_map, i)
                      \/ /\ i \in Expired(o1.self.new_paths_map)
                         /\ \/ o1.self.new_paths_map[i][2] \in DOMAIN o1.self.files_to_update
                            \/ Count(o2.calls, CreateFileCall(o1.self.new_paths_map[i][2])) >= 1
                            \/ Count(o2.calls, CreateDirCall(o1.self.new_paths_map[i][2])) >= 1
                /\ \A i \in DOMAIN o2.self.old_paths_map :
                      \/ Kept(o2.self.old_paths_map, o3.self.old_paths_map, i)
                      \/ /\ i \in Expired(o2.self.old_paths_map)
                         /\ Count(o3.calls, RemoveCall(o2.self.old_paths_map[i][2])) >= 1

====
